---- MODULE Spec2Model ----
(***************************************************************************)
(* Model of src/superstore_dashboard.py: a Streamlit script that loads a   *)
(* cached synthetic sales table, filters it by four sidebar widgets and    *)
(* renders KPI figures, group aggregates and a CSV export.  Every widget   *)
(* interaction re-executes main() top to bottom.                           *)
(*                                                                         *)
(* Numbers: Sales and Profit are floats in the program; here they are      *)
(* whole dollars and quotients are kept as exact fractions [num, den].     *)
(* Dates are integers yyyymmdd, which order like calendar dates.           *)
(***************************************************************************)
EXTENDS Integers, Sequences, FiniteSets, TLC

(***************************************************************************)
(* Bounds of the model.                                                    *)
(***************************************************************************)
\* rows of the generated table (the program draws 10000)
NRows == 2

(***************************************************************************)
(* Program constants.                                                      *)
(***************************************************************************)
\* .head(10) of the geographic and sub-category lists
TopN == 10
\* np.random.uniform(10, 5000, ...) for Sales
SalesLow == 10
SalesHigh == 5000
\* np.random.uniform(-1000, 2000, ...) for Profit
ProfitLow == 0 - 1000
ProfitHigh == 2000

None == "None"
NotRendered == "NotRendered"

\* Column labels of the DataFrame built by load_data, in order.
Columns ==
  << "Order_Date", "Category", "Sub_Category", "Segment", "State", "City",
     "Sales", "Quantity", "Discount", "Profit", "Ship_Mode",
     "Year", "Month", "Profit_Margin" >>

\* The value lists np.random.choice draws from, each in ascending order
\* (the order in which pandas' groupby presents its keys).
CategoryValues == << "Furniture", "Office Supplies", "Technology" >>
SubCategoryValues == << "Accessories", "Binders", "Chairs", "Paper", "Phones", "Tables" >>
SegmentValues == << "Consumer", "Corporate", "Home Office" >>
StateValues == << "California", "Florida", "New York", "Pennsylvania", "Texas" >>
CityValues == << "Houston", "Los Angeles", "New York City", "Philadelphia", "San Francisco" >>
ShipModeValues == << "First Class", "Same Day", "Second Class", "Standard Class" >>
\* Discount in percent: 0, 0.1, ... 0.5
DiscountValues == << 0, 10, 20, 30, 40, 50 >>

Range(s) == { s[i] : i \in 1..Len(s) }

(***************************************************************************)
(* Arithmetic helpers.                                                     *)
(***************************************************************************)
\* A quotient a / b, kept exact as the fraction num/den.  den = 0 records a
\* division that was evaluated with a zero denominator.
Divide(a, b) == [num |-> a, den |-> b]
Times(q, k) == [num |-> q.num * k, den |-> q.den]
\* the literal 0 of the conditional defaults
Zero == [num |-> 0, den |-> 1]

\* round(n / d) to the nearest integer, ties to even (numpy's round), d > 0
RoundDiv(n, d) ==
  LET q == n \div d
      r == n % d
  IN  IF 2 * r < d THEN q
      ELSE IF 2 * r > d THEN q + 1
      ELSE IF q % 2 = 0 THEN q ELSE q + 1

\* (profit / sales * 100).round(2), in hundredths of a percent
MarginRound2(profit, sales) == RoundDiv(10000 * profit, sales)

\* dt.year, dt.month and dt.to_period('M') of a yyyymmdd date
YearOf(d) == d \div 10000
MonthOf(d) == (d \div 100) % 100
PeriodM(d) == d \div 100

RECURSIVE SortedSeq(_)
\* the elements of a finite set of integers, ascending
SortedSeq(set) ==
  IF set = {} THEN << >>
  ELSE LET m == CHOOSE x \in set : \A y \in set : x <= y
       IN  << m >> \o SortedSeq(set \ {m})

(***************************************************************************)
(* load_data: the synthetic table.                                         *)
(***************************************************************************)
\* One row of pd.DataFrame(data) with the derived columns Year, Month and
\* Profit_Margin added.
MkRow(date, cat, sub, seg, state, city, sales, qty, disc, profit, ship) ==
  [ Order_Date |-> date, Category |-> cat, Sub_Category |-> sub,
    Segment |-> seg, State |-> state, City |-> city, Sales |-> sales,
    Quantity |-> qty, Discount |-> disc, Profit |-> profit, Ship_Mode |-> ship,
    Year |-> YearOf(date), Month |-> MonthOf(date),
    Profit_Margin |-> MarginRound2(profit, sales) ]

\* Days of pd.date_range('2014-01-01', '2017-12-31') the model draws from.
DateGrid == { 20140115, 20140220, 20150220 }

\* The rows the model's generator can draw; every field lies in the value
\* list or interval its np.random call draws from.
RowPool ==
  { r \in
      { MkRow(20140115, "Furniture", "Chairs", "Consumer", "California",
              "Los Angeles", 100, 1, 0, 20, "Standard Class"),
        MkRow(20140220, "Technology", "Phones", "Corporate", "New York",
              "New York City", 200, 2, 10, 0 - 40, "Second Class"),
        MkRow(20150220, "Furniture", "Phones", "Corporate", "California",
              "Houston", 300, 3, 20, 50, "First Class"),
        MkRow(20140115, "Office Supplies", "Paper", "Consumer", "New York",
              "Los Angeles", 100, 9, 0, 30, "Same Day") } :
      /\ r.Order_Date \in DateGrid
      /\ r.Category \in Range(CategoryValues)
      /\ r.Sub_Category \in Range(SubCategoryValues)
      /\ r.Segment \in Range(SegmentValues)
      /\ r.State \in Range(StateValues)
      /\ r.City \in Range(CityValues)
      /\ r.Sales >= SalesLow /\ r.Sales <= SalesHigh
      /\ r.Quantity \in 1..9
      /\ r.Discount \in Range(DiscountValues)
      /\ r.Profit >= ProfitLow /\ r.Profit <= ProfitHigh
      /\ r.Ship_Mode \in Range(ShipModeValues) }

\* The tables np.random.seed(42) followed by the draws can produce.
Tables == [ 1..NRows -> RowPool ]

\* States of ./DATASET/superstore_cleaned.csv as pd.read_csv meets them.
FileStates == { "absent", "empty", "valid" }

\* pd.read_csv: raises FileNotFoundError for a missing file and
\* EmptyDataError for a file with no columns.
ReadCsvRaises(f) == f # "valid"

(***************************************************************************)
(* Sidebar widgets and the filter.                                         *)
(***************************************************************************)
Unique(df, col) == { df[i][col] : i \in 1..Len(df) }

min_date(df) == CHOOSE d \in Unique(df, "Order_Date") :
                  \A e \in Unique(df, "Order_Date") : d <= e
max_date(df) == CHOOSE d \in Unique(df, "Order_Date") :
                  \A e \in Unique(df, "Order_Date") : d >= e

\* The widgets' default values.
DefaultWidgets(df) ==
  [ date_range |-> << min_date(df), max_date(df) >>,
    categories |-> Unique(df, "Category"),
    segments   |-> Unique(df, "Segment"),
    states     |-> Unique(df, "State") ]

\* Values st.date_input can return for a range: one date while a range
\* selection is in progress, or a start and an end within [min, max].
DateRangeValues(df) ==
  LET days == { d \in DateGrid : min_date(df) <= d /\ d <= max_date(df) }
  IN  { << d >> : d \in days }
        \cup { p \in days \X days : p[1] <= p[2] }

\* the mask with the State condition left out
PassesFilterNoState(r, w) ==
  /\ Len(w.date_range) = 2 =>
       /\ r.Order_Date >= w.date_range[1]
       /\ r.Order_Date <= w.date_range[2]
  /\ r.Category \in w.categories
  /\ r.Segment \in w.segments

\* the mask with the end of the date range excluded
PassesFilterEndExclusive(r, w) ==
  /\ Len(w.date_range) = 2 =>
       /\ r.Order_Date >= w.date_range[1]
       /\ r.Order_Date < w.date_range[2]
  /\ r.Category \in w.categories
  /\ r.Segment \in w.segments
  /\ r.State \in w.states

\* Boolean mask of "Apply filters".
PassesFilter(r, w) ==
  /\ Len(w.date_range) = 2 =>
       /\ r.Order_Date >= w.date_range[1]
       /\ r.Order_Date <= w.date_range[2]
  /\ r.Category \in w.categories
  /\ r.Segment \in w.segments
  /\ r.State \in w.states

df_filtered(df, w) == SelectSeq(df, LAMBDA r : PassesFilter(r, w))

(***************************************************************************)
(* Aggregation helpers (pandas groupby / agg / sort_values / head).        *)
(***************************************************************************)
RECURSIVE SumCol(_, _)
\* Series.sum() of one column; 0 for an empty frame
SumCol(S, col) ==
  IF S = << >> THEN 0 ELSE S[1][col] + SumCol(Tail(S), col)

\* A column as the key Series handed to groupby.
KeySeries(S, col) == [ i \in 1..Len(S) |-> S[i][col] ]

\* df_filtered['Order_Date'].dt.to_period('M') as the key Series.
PeriodSeries(S) == [ i \in 1..Len(S) |-> PeriodM(S[i].Order_Date) ]

RECURSIVE GroupRows(_, _, _)
\* The rows of the group with key k, in frame order.
GroupRows(S, keys, k) ==
  IF S = << >> THEN << >>
  ELSE (IF Head(keys) = k THEN << Head(S) >> ELSE << >>)
         \o GroupRows(Tail(S), Tail(keys), k)

\* groupby keys: the key values present, ascending (sort=True).
GroupKeys(keys, order) ==
  SelectSeq(order, LAMBDA k : \E i \in 1..Len(keys) : keys[i] = k)

RECURSIVE InsertDesc(_, _, _)
\* r placed behind every row whose col value is >= r's
InsertDesc(sorted, r, col) ==
  IF sorted = << >> THEN << r >>
  ELSE IF Head(sorted)[col] >= r[col]
       THEN << Head(sorted) >> \o InsertDesc(Tail(sorted), r, col)
       ELSE << r >> \o sorted

RECURSIVE SortDescFrom(_, _, _)
SortDescFrom(done, rest, col) ==
  IF rest = << >> THEN done
  ELSE SortDescFrom(InsertDesc(done, Head(rest), col), Tail(rest), col)

\* sort_values left out: the frame in groupby order
SortValuesSkipped(t, col) == t

\* sort_values(col, ascending=False)
SortValuesDesc(t, col) == SortDescFrom(<< >>, t, col)

\* .head(n)
HeadN(t, n) == SubSeq(t, 1, IF Len(t) < n THEN Len(t) ELSE n)

(***************************************************************************)
(* KPIs.                                                                   *)
(***************************************************************************)
\* total_profit summed over the wrong column
total_profit_of_sales(S) == SumCol(S, "Sales")

total_sales(S) == SumCol(S, "Sales")
total_profit(S) == SumCol(S, "Profit")
total_orders(S) == Len(S)

\* the margin without its conditional default
profit_margin_unguarded(S) ==
  Times(Divide(SumCol(S, "Profit"), SumCol(S, "Sales")), 100)

\* the average without its conditional default
avg_order_value_unguarded(S) == Divide(SumCol(S, "Sales"), Len(S))

\* (total_profit / total_sales * 100) if total_sales > 0 else 0
profit_margin(S) ==
  IF total_sales(S) > 0
  THEN Times(Divide(total_profit(S), total_sales(S)), 100)
  ELSE Zero

\* total_sales / total_orders if total_orders > 0 else 0
avg_order_value(S) ==
  IF total_orders(S) > 0
  THEN Divide(total_sales(S), total_orders(S))
  ELSE Zero

(***************************************************************************)
(* Report sections.                                                        *)
(***************************************************************************)
\* Sales by Category with Orders aggregated by 'nunique' instead of 'count'
category_sales_nunique(S) ==
  LET keys == KeySeries(S, "Category")
      ks == GroupKeys(keys, CategoryValues)
      grouped == [ n \in 1..Len(ks) |->
                   LET g == GroupRows(S, keys, ks[n])
                   IN  [ Category |-> ks[n], Sales |-> SumCol(g, "Sales"),
                         Profit |-> SumCol(g, "Profit"),
                         Orders |-> Cardinality(Unique(g, "Order_Date")) ] ]
      sorted == SortValuesDesc(grouped, "Sales")
  IN  [ n \in 1..Len(sorted) |->
        [ Category |-> sorted[n].Category, Sales |-> sorted[n].Sales,
          Profit |-> sorted[n].Profit, Orders |-> sorted[n].Orders,
          Profit_Margin_pct |-> MarginRound2(sorted[n].Profit, sorted[n].Sales) ] ]

\* Sales by Category, with the Profit_Margin_% column of the details table.
category_sales(S) ==
  LET keys == KeySeries(S, "Category")
      ks == GroupKeys(keys, CategoryValues)
      grouped == [ n \in 1..Len(ks) |->
                   LET g == GroupRows(S, keys, ks[n])
                   IN  [ Category |-> ks[n], Sales |-> SumCol(g, "Sales"),
                         Profit |-> SumCol(g, "Profit"), Orders |-> Len(g) ] ]
      sorted == SortValuesDesc(grouped, "Sales")
  IN  [ n \in 1..Len(sorted) |->
        [ Category |-> sorted[n].Category, Sales |-> sorted[n].Sales,
          Profit |-> sorted[n].Profit, Orders |-> sorted[n].Orders,
          Profit_Margin_pct |-> MarginRound2(sorted[n].Profit, sorted[n].Sales) ] ]

\* Sales & Profit by Segment with a sort_values('Sales', ascending=False)
segment_sales_sorted(S) ==
  LET keys == KeySeries(S, "Segment")
      ks == GroupKeys(keys, SegmentValues)
  IN  SortValuesDesc(
        [ n \in 1..Len(ks) |->
          LET g == GroupRows(S, keys, ks[n])
          IN  [ Segment |-> ks[n], Sales |-> SumCol(g, "Sales"),
                Profit |-> SumCol(g, "Profit") ] ],
        "Sales")

\* Sales & Profit by Segment.
segment_sales(S) ==
  LET keys == KeySeries(S, "Segment")
      ks == GroupKeys(keys, SegmentValues)
  IN  [ n \in 1..Len(ks) |->
        LET g == GroupRows(S, keys, ks[n])
        IN  [ Segment |-> ks[n], Sales |-> SumCol(g, "Sales"),
              Profit |-> SumCol(g, "Profit") ] ]

\* Monthly Sales Trend; to_timestamp() gives the first day of the month.
monthly_sales(S) ==
  LET keys == PeriodSeries(S)
      ks == GroupKeys(keys, SortedSeq({ PeriodM(d) : d \in DateGrid }))
  IN  [ n \in 1..Len(ks) |->
        LET g == GroupRows(S, keys, ks[n])
        IN  [ Order_Date |-> ks[n] * 100 + 1, Sales |-> SumCol(g, "Sales"),
              Profit |-> SumCol(g, "Profit") ] ]

\* Yearly Comparison.
yearly_sales(S) ==
  LET keys == KeySeries(S, "Year")
      ks == GroupKeys(keys, SortedSeq({ YearOf(d) : d \in DateGrid }))
  IN  [ n \in 1..Len(ks) |->
        LET g == GroupRows(S, keys, ks[n])
        IN  [ Year |-> ks[n], Sales |-> SumCol(g, "Sales"),
              Profit |-> SumCol(g, "Profit"), Orders |-> Len(g) ] ]

\* Top 10 States by Sales.
state_sales(S) ==
  LET keys == KeySeries(S, "State")
      ks == GroupKeys(keys, StateValues)
  IN  HeadN(SortValuesDesc(
              [ n \in 1..Len(ks) |->
                [ State |-> ks[n],
                  Sales |-> SumCol(GroupRows(S, keys, ks[n]), "Sales") ] ],
              "Sales"), TopN)

\* Top 10 Cities by Profit.
city_profit(S) ==
  LET keys == KeySeries(S, "City")
      ks == GroupKeys(keys, CityValues)
  IN  HeadN(SortValuesDesc(
              [ n \in 1..Len(ks) |->
                [ City |-> ks[n],
                  Profit |-> SumCol(GroupRows(S, keys, ks[n]), "Profit") ] ],
              "Profit"), TopN)

\* Top Sub-Categories by Sales, with the Profit_Margin column.
subcat_sales(S) ==
  LET keys == KeySeries(S, "Sub_Category")
      ks == GroupKeys(keys, SubCategoryValues)
      top == HeadN(SortValuesDesc(
                     [ n \in 1..Len(ks) |->
                       LET g == GroupRows(S, keys, ks[n])
                       IN  [ Sub_Category |-> ks[n], Sales |-> SumCol(g, "Sales"),
                             Profit |-> SumCol(g, "Profit") ] ],
                     "Sales"), TopN)
  IN  [ n \in 1..Len(top) |->
        [ Sub_Category |-> top[n].Sub_Category, Sales |-> top[n].Sales,
          Profit |-> top[n].Profit,
          Profit_Margin |-> MarginRound2(top[n].Profit, top[n].Sales) ] ]

\* px.scatter(..., size='Profit'): plotly rejects a negative marker size
\* with a ValueError.
ScatterRaises(t) == \E i \in 1..Len(t) : t[i].Profit < 0

\* (Discount * 100).astype(int).astype(str) + '%'
DiscountLabel(pct) == ToString(pct) \o "%"

\* Discount Impact Analysis.
discount_analysis(S) ==
  LET keys == KeySeries(S, "Discount")
      ks == GroupKeys(keys, DiscountValues)
  IN  [ n \in 1..Len(ks) |->
        LET g == GroupRows(S, keys, ks[n])
        IN  [ Discount |-> DiscountLabel(ks[n]), Sales |-> SumCol(g, "Sales"),
              Profit |-> SumCol(g, "Profit"), Orders |-> Len(g),
              Profit_Margin |->
                MarginRound2(SumCol(g, "Profit"), SumCol(g, "Sales")) ] ]

\* Shipping Mode Analysis.
shipping(S) ==
  LET keys == KeySeries(S, "Ship_Mode")
      ks == GroupKeys(keys, ShipModeValues)
  IN  SortValuesDesc(
        [ n \in 1..Len(ks) |->
          LET g == GroupRows(S, keys, ks[n])
          IN  [ Ship_Mode |-> ks[n], Sales |-> SumCol(g, "Sales"),
                Profit |-> SumCol(g, "Profit"), Orders |-> Len(g) ] ],
        "Orders")

\* to_csv() without index=False: the row index becomes a first, unnamed column
to_csv_with_index(S) ==
  [ header |-> << "" >> \o Columns,
    lines  |-> [ i \in 1..Len(S) |->
                 << i - 1 >> \o [ c \in 1..Len(Columns) |-> S[i][Columns[c]] ] ] ]

\* df_filtered.to_csv(index=False): a header line naming the columns and
\* one line per row holding the row's values in column order.
to_csv(S) ==
  [ header |-> Columns,
    lines  |-> [ i \in 1..Len(S) |->
                 [ c \in 1..Len(Columns) |-> S[i][Columns[c]] ] ] ]

(***************************************************************************)
(* State.                                                                  *)
(***************************************************************************)
VARIABLES
  synthetic,   \* the table the seeded generator of load_data produces
  cache,       \* st.cache_data's entries for load_data: << >> or << table >>
  generated,   \* how many times the body of load_data has built its table
  fileSeen,    \* state of the CSV file at the latest pd.read_csv
  widgets,     \* session values of the four sidebar widgets (Unset: none)
  status,      \* how the latest execution of the script ended
  page         \* what the latest execution computed and displayed

vars == << synthetic, cache, generated, fileSeen, widgets, status, page >>

\* No widget value is held by the session (the date tuple of a rendered
\* date picker is never empty).
Unset == [ date_range |-> << >>, categories |-> {}, segments |-> {}, states |-> {} ]

\* Nothing displayed: load_data raised before any element was computed.
BlankPage ==
  [ df_filtered |-> NotRendered, total_sales |-> NotRendered,
    total_profit |-> NotRendered, total_orders |-> NotRendered,
    profit_margin |-> NotRendered, avg_order_value |-> NotRendered,
    category_sales |-> NotRendered, segment_sales |-> NotRendered,
    monthly_sales |-> NotRendered, yearly_sales |-> NotRendered,
    state_sales |-> NotRendered, city_profit |-> NotRendered,
    subcat_sales |-> NotRendered, discount_analysis |-> NotRendered,
    shipping |-> NotRendered, csv |-> NotRendered ]

\* The body of main() after the sidebar, on table df with widget values w.
\* An exception from px.scatter ends the run: the sections below it are
\* never computed.
RenderPage(df, w) ==
  LET S == df_filtered(df, w)
      sc == subcat_sales(S)
      raised == ScatterRaises(sc)
      Below(x) == IF raised THEN NotRendered ELSE x
  IN  [ df_filtered |-> S,
        total_sales |-> total_sales(S),
        total_profit |-> total_profit(S),
        total_orders |-> total_orders(S),
        profit_margin |-> profit_margin(S),
        avg_order_value |-> avg_order_value(S),
        category_sales |-> category_sales(S),
        segment_sales |-> segment_sales(S),
        monthly_sales |-> monthly_sales(S),
        yearly_sales |-> yearly_sales(S),
        state_sales |-> state_sales(S),
        city_profit |-> city_profit(S),
        subcat_sales |-> sc,
        discount_analysis |-> Below(discount_analysis(S)),
        shipping |-> Below(shipping(S)),
        csv |-> Below(to_csv(S)) ]

\* How an execution that displayed page p ended.
RenderStatus(p) ==
  IF ScatterRaises(p.subcat_sales) THEN "render_error" ELSE "done"

\* load_data without @st.cache_data: every execution runs its body
CacheMissAlways(c) == TRUE

\* @st.cache_data: the body of load_data runs only on a cache miss.
CacheMiss(c) == c = << >>

\* The widgets' values in this execution: the session's, or the defaults
\* when the session holds none.
WidgetValues(df, w) == IF w = Unset THEN DefaultWidgets(df) ELSE w

\* One execution of the script with session widget values w.
Main(w) ==
  IF CacheMiss(cache)
  THEN \E f \in FileStates :
         /\ fileSeen' = f
         /\ IF ReadCsvRaises(f)
            THEN /\ status' = "load_error"
                 /\ page' = BlankPage
                 /\ widgets' = Unset
                 /\ UNCHANGED << cache, generated >>
            ELSE /\ cache' = << synthetic >>
                 /\ generated' = generated + 1
                 /\ widgets' = WidgetValues(synthetic, w)
                 /\ page' = RenderPage(synthetic, widgets')
                 /\ status' = RenderStatus(page')
  ELSE /\ widgets' = WidgetValues(cache[1], w)
       /\ page' = RenderPage(cache[1], widgets')
       /\ status' = RenderStatus(page')
       /\ UNCHANGED << cache, generated, fileSeen >>

Init ==
  /\ synthetic \in Tables
  /\ cache = << >>
  /\ generated = 0
  /\ fileSeen = None
  /\ widgets = Unset
  /\ status = "init"
  /\ page = BlankPage

\* The page is opened or re-run without touching a widget.
Rerun ==
  /\ Main(widgets)
  /\ UNCHANGED synthetic

\* The widgets are on screen once the sidebar has been built.
SidebarShown == status \in { "done", "render_error" }

SelectDateRange ==
  /\ SidebarShown
  /\ \E v \in DateRangeValues(cache[1]) \ { widgets.date_range } :
       Main([ widgets EXCEPT !.date_range = v ])
  /\ UNCHANGED synthetic

SelectCategories ==
  /\ SidebarShown
  /\ \E v \in (SUBSET Unique(cache[1], "Category")) \ { widgets.categories } :
       Main([ widgets EXCEPT !.categories = v ])
  /\ UNCHANGED synthetic

SelectSegments ==
  /\ SidebarShown
  /\ \E v \in (SUBSET Unique(cache[1], "Segment")) \ { widgets.segments } :
       Main([ widgets EXCEPT !.segments = v ])
  /\ UNCHANGED synthetic

SelectStates ==
  /\ SidebarShown
  /\ \E v \in (SUBSET Unique(cache[1], "State")) \ { widgets.states } :
       Main([ widgets EXCEPT !.states = v ])
  /\ UNCHANGED synthetic

Next ==
  \/ Rerun
  \/ SelectDateRange
  \/ SelectCategories
  \/ SelectSegments
  \/ SelectStates

Spec == Init /\ [][Next]_vars

(***************************************************************************)
(* Properties.  They are stated over the dataset and the widget values     *)
(* with their own definitions of the filter predicate and of a sum.        *)
(***************************************************************************)
\* The KPIs and the sections above the scatter plot have been displayed.
Rendered == status \in { "done", "render_error" }

\* Row r of the dataset passes the active filter.
InView(r) ==
  /\ r.Category \in widgets.categories
  /\ r.Segment \in widgets.segments
  /\ r.State \in widgets.states
  /\ Len(widgets.date_range) = 2 =>
       (widgets.date_range[1] <= r.Order_Date /\ r.Order_Date <= widgets.date_range[2])

\* Positions of the dataset's rows that pass the active filter.
ViewIndices == { i \in 1..Len(synthetic) : InView(synthetic[i]) }

RECURSIVE Sigma(_, _, _)
\* Sum of column col over the rows of t at the positions idx
Sigma(t, idx, col) ==
  IF idx = {} THEN 0
  ELSE LET i == CHOOSE x \in idx : TRUE
       IN  t[i][col] + Sigma(t, idx \ {i}, col)

\* Sum of column col over a whole frame
Total(t, col) == Sigma(t, 1..Len(t), col)

\* Sum of column col over the rows of S whose column key holds k
GroupTotal(S, key, k, col) == Sigma(S, { i \in 1..Len(S) : S[i][key] = k }, col)

\* The values of a dataset row in column order.
RowValues(r) == [ c \in 1..Len(Columns) |-> r[Columns[c]] ]

\* t is ordered descending by column col
Descending(t, col) == \A i, j \in 1..Len(t) : i < j => t[i][col] >= t[j][col]

\* Position of value v in the ascending value list order
Pos(order, v) == CHOOSE i \in 1..Len(order) : order[i] = v

\* C1: the exported CSV holds exactly the rows of the dataset that pass the
\* active filter (as many lines as rows in the view, none from outside it)
\* and its header names exactly the columns of the in-memory table.
C1_ExportIsFilteredView ==
  status = "done" =>
    /\ Len(page.csv.lines) = Cardinality(ViewIndices)
    /\ \A k \in 1..Len(page.csv.lines) :
         \E i \in ViewIndices : page.csv.lines[k] = RowValues(synthetic[i])
    /\ \A i \in ViewIndices :
         \E k \in 1..Len(page.csv.lines) : page.csv.lines[k] = RowValues(synthetic[i])
    /\ Range(page.csv.header) = DOMAIN synthetic[1]
    /\ Len(page.csv.header) = Cardinality(DOMAIN synthetic[1])
    /\ \A k \in 1..Len(page.csv.lines) :
         Len(page.csv.lines[k]) = Len(page.csv.header)

\* an export offered while the filter keeps some rows and drops others
C1_Witness ==
  /\ status = "done"
  /\ Len(page.csv.lines) > 0
  /\ Len(page.csv.lines) < Len(synthetic)
  /\ widgets # DefaultWidgets(synthetic)

\* C2: the profit-margin KPI is 0 when the view's total sales are 0 and
\* 100 * total profit / total sales otherwise, and its division is never
\* evaluated with a zero denominator.
C2_ProfitMarginGuarded ==
  Rendered =>
    LET S == page.df_filtered
        ts == Total(S, "Sales")
        tp == Total(S, "Profit")
        m == page.profit_margin
    IN  /\ m.den # 0
        /\ IF ts = 0
           THEN m.num = 0
           ELSE m.num * ts = 100 * tp * m.den

\* an empty view, where the margin takes its default
C2_Witness ==
  /\ Rendered
  /\ page.df_filtered = << >>
  /\ page.total_sales = 0
  /\ page.profit_margin = Zero

\* C3: the average-order-value KPI is 0 when the view is empty and total
\* sales divided by the number of rows otherwise.
C3_AvgOrderValueGuarded ==
  Rendered =>
    LET S == page.df_filtered
        a == page.avg_order_value
    IN  /\ a.den # 0
        /\ IF Len(S) = 0
           THEN a.num = 0
           ELSE a.num * Len(S) = Total(S, "Sales") * a.den

\* a view of several rows whose average is not any row's sales
C3_Witness ==
  /\ Rendered
  /\ Len(page.df_filtered) = 2
  /\ page.df_filtered[1].Sales # page.df_filtered[2].Sales
  /\ page.avg_order_value.num = page.avg_order_value.den * 150

\* C4: the KPI totals are taken over exactly the view: total sales and total
\* profit are the sums over its rows and total orders is its row count; rows
\* (100, 20) and (200, -40) give 300, -20 and an average order value of 150.
C4_TotalsOverView ==
  Rendered =>
    LET S == page.df_filtered
    IN  /\ \A k \in 1..Len(S) : \E i \in ViewIndices : S[k] = synthetic[i]
        /\ Len(S) = Cardinality(ViewIndices)
        /\ page.total_sales = Total(S, "Sales")
        /\ page.total_profit = Total(S, "Profit")
        /\ page.total_orders = Len(S)
        /\ ( /\ Len(S) = 2
             /\ S[1].Sales = 100 /\ S[1].Profit = 20
             /\ S[2].Sales = 200 /\ S[2].Profit = 0 - 40 )
           => /\ page.total_sales = 300
              /\ page.total_profit = 0 - 20
              /\ page.avg_order_value.num = 150 * page.avg_order_value.den
              /\ 3 * page.profit_margin.num = (0 - 20) * page.profit_margin.den

\* the example rows are the view
C4_Witness ==
  /\ Rendered
  /\ Len(page.df_filtered) = 2
  /\ page.df_filtered[1].Sales = 100 /\ page.df_filtered[1].Profit = 20
  /\ page.df_filtered[2].Sales = 200 /\ page.df_filtered[2].Profit = 0 - 40
  /\ page.total_profit = 0 - 20

\* C5: with no filter applied the category, segment and state aggregates
\* each add up to the KPI totals: group sales to total sales, group profit
\* (where the breakdown carries it: category and segment) to total profit,
\* and the category Orders counts to total orders.
C5_GroupsSumToTotals ==
  (Rendered /\ widgets = DefaultWidgets(synthetic)) =>
    /\ page.total_sales = Total(synthetic, "Sales")
    /\ page.total_profit = Total(synthetic, "Profit")
    /\ page.total_orders = Len(synthetic)
    /\ Total(page.category_sales, "Sales") = page.total_sales
    /\ Total(page.category_sales, "Profit") = page.total_profit
    /\ Total(page.category_sales, "Orders") = page.total_orders
    /\ Total(page.segment_sales, "Sales") = page.total_sales
    /\ Total(page.segment_sales, "Profit") = page.total_profit
    /\ Total(page.state_sales, "Sales") = page.total_sales

\* an unfiltered page whose two rows fall in one category and one state but
\* in two segments
C5_Witness ==
  /\ Rendered
  /\ widgets = DefaultWidgets(synthetic)
  /\ Len(page.category_sales) = 1
  /\ page.category_sales[1].Orders = 2
  /\ Len(page.segment_sales) = 2
  /\ Len(page.state_sales) = 1
  /\ page.state_sales[1].Sales = 400

\* One top-10 list: at most 10 entries, descending by the metric, one entry
\* per group, each entry carrying its group's sum over the view, and no
\* group of the view outside the list with a sum above an entry's.
TopListOk(t, S, key, metric) ==
  /\ Len(t) <= 10
  /\ Descending(t, metric)
  /\ \A i, j \in 1..Len(t) : i # j => t[i][key] # t[j][key]
  /\ \A i \in 1..Len(t) :
       /\ \E k \in 1..Len(S) : S[k][key] = t[i][key]
       /\ t[i][metric] = GroupTotal(S, key, t[i][key], metric)
  /\ \A k \in 1..Len(S) :
       (\A i \in 1..Len(t) : t[i][key] # S[k][key]) =>
         \A i \in 1..Len(t) : GroupTotal(S, key, S[k][key], metric) <= t[i][metric]
  /\ Len(t) < 10 => \A k \in 1..Len(S) : \E i \in 1..Len(t) : t[i][key] = S[k][key]

\* C6: the top-10 states-by-sales and cities-by-profit lists hold at most 10
\* entries, are ordered descending by the aggregated metric, name each state
\* or city once, and leave out no group with a strictly greater metric.
C6_TopListsOrdered ==
  Rendered =>
    /\ TopListOk(page.state_sales, page.df_filtered, "State", "Sales")
    /\ TopListOk(page.city_profit, page.df_filtered, "City", "Profit")

\* both lists hold two groups with different sums
C6_Witness ==
  /\ Rendered
  /\ Len(page.state_sales) = 2
  /\ page.state_sales[1].Sales > page.state_sales[2].Sales
  /\ Len(page.city_profit) = 2
  /\ page.city_profit[1].Profit > page.city_profit[2].Profit

\* C7: the dataset is generated once, on the execution that finds the cache
\* empty; afterwards no execution changes the cached table or generates
\* again, and what an execution displays is determined by the widget values
\* alone, whatever interactions came before.
C7_CachedTableReadOnly ==
  [][ /\ generated' # generated => (cache = << >> /\ generated = 0)
      /\ cache # << >> => cache' = cache
      /\ cache' # << >> => cache' = << synthetic >>
      /\ Rendered' =>
           /\ generated' = 1
           /\ page' = RenderPage(synthetic, widgets') ]_vars

\* a later execution, after interactions, reading the table generated once
C7_Witness ==
  /\ status = "done"
  /\ generated = 1
  /\ cache = << synthetic >>
  /\ widgets # DefaultWidgets(synthetic)
  /\ Len(page.df_filtered) = 1

\* C8 (as claimed): whatever the state of ./DATASET/superstore_cleaned.csv,
\* an execution's load step completes and returns the synthetic table.
C8_LoadIgnoresFile ==
  fileSeen \in FileStates =>
    /\ status # "load_error"
    /\ cache = << synthetic >>

\* One breakdown t of the view S.  labels[i] is the key of t's row i,
\* ranks[i] its place in ascending key order and keys[k] the key of S's
\* row k: a row per key of the view, in ascending key order, carrying the
\* group's sums of sales and profit (and its row count, where present).
BreakdownOk(t, labels, ranks, S, keys) ==
  /\ \A i, j \in 1..Len(t) : i < j => ranks[i] < ranks[j]
  /\ \A k \in 1..Len(S) : \E i \in 1..Len(t) : labels[i] = keys[k]
  /\ \A i \in 1..Len(t) :
       LET idx == { k \in 1..Len(S) : keys[k] = labels[i] }
       IN  /\ idx # {}
           /\ t[i].Sales = Sigma(S, idx, "Sales")
           /\ t[i].Profit = Sigma(S, idx, "Profit")
           /\ "Orders" \in DOMAIN t[i] => t[i].Orders = Cardinality(idx)

\* every row of t carries the sums of sales and profit and the row count
HasSumsAndCount(t) ==
  \A i \in 1..Len(t) : { "Sales", "Profit", "Orders" } \subseteq DOMAIN t[i]

\* C9 (as claimed): the category, segment, monthly and yearly breakdowns all
\* carry sum of sales, sum of profit and the row count per group and are
\* sorted descending by summed sales.
C9_AllBreakdownsSortedWithCount ==
  Rendered =>
    /\ HasSumsAndCount(page.category_sales) /\ Descending(page.category_sales, "Sales")
    /\ HasSumsAndCount(page.segment_sales) /\ Descending(page.segment_sales, "Sales")
    /\ HasSumsAndCount(page.monthly_sales) /\ Descending(page.monthly_sales, "Sales")
    /\ HasSumsAndCount(page.yearly_sales) /\ Descending(page.yearly_sales, "Sales")

\* C9 (amended): every breakdown groups the view by one key and carries the
\* sums of sales and profit per group; the category and yearly breakdowns
\* also carry the row count, the segment and monthly ones do not; only the
\* category breakdown is sorted descending by sales, the segment, monthly
\* and yearly ones are in ascending order of their key.
C9_BreakdownsAsBuilt ==
  Rendered =>
    LET S == page.df_filtered
        cat == page.category_sales
    IN  /\ Descending(cat, "Sales")
        /\ \A i, j \in 1..Len(cat) : i # j => cat[i].Category # cat[j].Category
        /\ \A k \in 1..Len(S) : \E i \in 1..Len(cat) : cat[i].Category = S[k].Category
        /\ \A i \in 1..Len(cat) :
             /\ DOMAIN cat[i] =
                  { "Category", "Sales", "Profit", "Orders", "Profit_Margin_pct" }
             /\ cat[i].Sales = GroupTotal(S, "Category", cat[i].Category, "Sales")
             /\ cat[i].Profit = GroupTotal(S, "Category", cat[i].Category, "Profit")
             /\ cat[i].Orders =
                  Cardinality({ k \in 1..Len(S) : S[k].Category = cat[i].Category })
             /\ cat[i].Orders > 0
        /\ LET t == page.segment_sales
           IN  /\ BreakdownOk(t, [ i \in 1..Len(t) |-> t[i].Segment ],
                              [ i \in 1..Len(t) |-> Pos(SegmentValues, t[i].Segment) ],
                              S, [ k \in 1..Len(S) |-> S[k].Segment ])
               /\ \A i \in 1..Len(t) :
                    DOMAIN t[i] = { "Segment", "Sales", "Profit" }
        /\ LET t == page.monthly_sales
           IN  /\ BreakdownOk(t, [ i \in 1..Len(t) |-> t[i].Order_Date \div 100 ],
                              [ i \in 1..Len(t) |-> t[i].Order_Date ],
                              S, [ k \in 1..Len(S) |-> S[k].Order_Date \div 100 ])
               /\ \A i \in 1..Len(t) :
                    /\ DOMAIN t[i] = { "Order_Date", "Sales", "Profit" }
                    /\ t[i].Order_Date % 100 = 1
        /\ LET t == page.yearly_sales
           IN  /\ BreakdownOk(t, [ i \in 1..Len(t) |-> t[i].Year ],
                              [ i \in 1..Len(t) |-> t[i].Year ],
                              S, [ k \in 1..Len(S) |-> S[k].Order_Date \div 10000 ])
               /\ \A i \in 1..Len(t) :
                    DOMAIN t[i] = { "Year", "Sales", "Profit", "Orders" }

\* two segments whose key order is ascending in sales, beside two categories
C9_Witness ==
  /\ Rendered
  /\ Len(page.segment_sales) = 2
  /\ page.segment_sales[1].Sales < page.segment_sales[2].Sales
  /\ Len(page.category_sales) = 2
  /\ page.category_sales[1].Sales > page.category_sales[2].Sales
  /\ Len(page.yearly_sales) = 2

\* C10: when the active filter matches no row the execution completes: the
\* five KPIs are 0, the nine group aggregates are empty and the export holds
\* no data row.
C10_EmptyViewCompletes ==
  (status \in { "done", "render_error" } /\ ViewIndices = {}) =>
    /\ status = "done"
    /\ page.df_filtered = << >>
    /\ page.total_sales = 0
    /\ page.total_profit = 0
    /\ page.total_orders = 0
    /\ page.profit_margin.num = 0 /\ page.profit_margin.den # 0
    /\ page.avg_order_value.num = 0 /\ page.avg_order_value.den # 0
    /\ page.category_sales = << >>
    /\ page.segment_sales = << >>
    /\ page.monthly_sales = << >>
    /\ page.yearly_sales = << >>
    /\ page.state_sales = << >>
    /\ page.city_profit = << >>
    /\ page.subcat_sales = << >>
    /\ page.discount_analysis = << >>
    /\ page.shipping = << >>
    /\ page.csv.lines = << >>
    /\ page.csv.header = Columns

\* a multi-select emptied while the date range still spans the dataset
C10_Witness ==
  /\ status = "done"
  /\ widgets.states = {}
  /\ widgets.categories # {}
  /\ Len(widgets.date_range) = 2
  /\ page.csv.lines = << >>

\* Row r's category, segment and state are each among the selected values.
Selected(r) ==
  /\ r.Category \in widgets.categories
  /\ r.Segment \in widgets.segments
  /\ r.State \in widgets.states

\* Positions of the dataset rows the claim puts in the view: with exactly
\* two dates in the picker, the selected rows dated between them, both ends
\* included; with any other number of dates, all selected rows.
ClaimedView ==
  IF Len(widgets.date_range) = 2
  THEN { i \in 1..Len(synthetic) :
           /\ Selected(synthetic[i])
           /\ widgets.date_range[1] <= synthetic[i].Order_Date
           /\ synthetic[i].Order_Date <= widgets.date_range[2] }
  ELSE { i \in 1..Len(synthetic) : Selected(synthetic[i]) }

\* C11: the filtered view is the subset of the dataset fixed by the widget
\* values alone: with two dates in the picker, the rows dated between them
\* (inclusive) whose category, segment and state are selected; with any
\* other number of dates, the rows whose category, segment and state are
\* selected, whatever their date.  The rows keep the dataset's order.
C11_ViewIsWidgetPredicate ==
  Rendered =>
    LET idx == SortedSeq(ClaimedView)
    IN  /\ Len(page.df_filtered) = Len(idx)
        /\ \A n \in 1..Len(idx) : page.df_filtered[n] = synthetic[idx[n]]

\* a range selection in progress: one date in the picker, and a row dated
\* otherwise is in the view beside a row that a multi-select keeps out
C11_Witness ==
  /\ Rendered
  /\ Len(widgets.date_range) = 1
  /\ Len(page.df_filtered) = 1
  /\ page.df_filtered[1].Order_Date # widgets.date_range[1]
  /\ \E i \in 1..Len(synthetic) : synthetic[i].Category \notin widgets.categories

====
